---------------------------- MODULE Spec2Model ----------------------------
(***************************************************************************)
(* VerbaFlow (src/agent.py): a Streamlit script that records audio, has a  *)
(* hosted model transcribe and analyse it, and exports the notes.          *)
(*                                                                         *)
(* A text is a sequence of strings: single characters, and whole literals  *)
(* of the source (an instruction of a prompt template, the "Agent Error: " *)
(* prefix) kept as one element each.                                       *)
(*                                                                         *)
(* Three specifications share the module:                                  *)
(*   Spec        the interactive session: user actions at the widgets and  *)
(*               the steps of the script run (main) each of them starts;   *)
(*   PromptSpec  think_and_process / ask_question called on bounded        *)
(*               (task, text, question) inputs;                            *)
(*   FenceSpec   think_and_process called on bounded model replies built   *)
(*               from backticks, fences and the word "mermaid".            *)
(***************************************************************************)
EXTENDS Integers, Sequences, FiniteSets, TLC

VARIABLES
    \* ---- widget state kept by Streamlit between script runs ----
    apiKey,         \* st.text_input("Gemini API Key")            (line 118)
    audio,          \* st.audio_input("Record Lecture"), 0 = none (line 143)
    userQ,          \* st.text_input("Ask a question ...")        (line 195)
    clicked,        \* the button whose click started this run, or "none"
    \* ---- st.session_state ----
    session,        \* function from the keys present to their values
    \* ---- the file system ----
    wavFiles,       \* number of temporary .wav files on disk
    docxFiles,      \* number of temporary .docx files on disk
    \* ---- the script run ----
    pc,             \* position of the run of main(); "idle" between runs
    status,         \* how the last run ended / "running"
    downloads,      \* what the download buttons of the last render hold
    answer,         \* the chat bubble rendered by this run
    \* ---- observation of the gateway ----
    runRequests,    \* upload_file/generate_content requests in this run
    actionOps,      \* gateway operations since the last user action
    gw,             \* outcome of the last gateway operation
    resultFrom,     \* the text handed to think_and_process at line 171
    nActions,       \* user actions so far
    \* ---- function-level specifications ----
    fnPc, fnTask, fnText, fnQuestion, fnReply, fnPrompt, fnOut

sessionVars == <<apiKey, audio, userQ, clicked, session, wavFiles, docxFiles,
                 pc, status, downloads, answer, runRequests, actionOps, gw,
                 resultFrom, nActions>>
fnVars == <<fnPc, fnTask, fnText, fnQuestion, fnReply, fnPrompt, fnOut>>
vars == <<sessionVars, fnVars>>

---------------------------------------------------------------------------
(* Bounds *)

MaxActions == 6
MaxTextLen == 2
MaxPieces == 5
NumClips == 2

---------------------------------------------------------------------------
(* Text helpers: Python's str operations on sequences *)

\* the backtick character
Tick == "BACKTICK"
Fence == <<Tick, Tick, Tick>>
MermaidWord == <<"m", "e", "r", "m", "a", "i", "d">>
MermaidFence == Fence \o MermaidWord
Whitespace == {" ", "\n"}

\* needle in hay (the in operator of str)
Contains(hay, needle) ==
    \E i \in 0..(Len(hay) - Len(needle)) :
        SubSeq(hay, i + 1, i + Len(needle)) = needle

\* str.replace(old, ""): leftmost, non-overlapping occurrences, one pass
RECURSIVE Replace(_, _)
Replace(s, old) ==
    IF Len(s) < Len(old) THEN s
    ELSE IF SubSeq(s, 1, Len(old)) = old
         THEN Replace(SubSeq(s, Len(old) + 1, Len(s)), old)
         ELSE <<Head(s)>> \o Replace(Tail(s), old)

\* str.strip(): leading and trailing whitespace
RECURSIVE LStrip(_)
LStrip(s) ==
    IF s # <<>> /\ Head(s) \in Whitespace THEN LStrip(Tail(s)) ELSE s

RECURSIVE RStrip(_)
RStrip(s) ==
    IF s # <<>> /\ s[Len(s)] \in Whitespace
    THEN RStrip(SubSeq(s, 1, Len(s) - 1)) ELSE s

Strip(s) == LStrip(RStrip(s))

RECURSIVE Flatten(_)
Flatten(ps) == IF ps = <<>> THEN <<>> ELSE Head(ps) \o Flatten(Tail(ps))

SeqsUpTo(S, n) == UNION {[1..k -> S] : k \in 0..n}

---------------------------------------------------------------------------
(* TranscriptionAgent *)

Tasks == {"Summarize", "Elaborate", "Action Items", "Quiz", "Mind Map"}

ActionItemsInstruction == "Identify tasks and assignments as a checklist"

\* the templates written as plain strings: the placeholder is sent as is
ThinkPromptUnformatted(task, text) ==
    IF task \in Tasks THEN <<task, ":\n\n", "{text}">>
    ELSE <<"Analyze this text.">>

\* the prompts dict of think_and_process and its .get default
ThinkPrompt(task, text) ==
    CASE task = "Summarize" ->
            <<"Create a comprehensive bullet-point summary", ":\n\n">> \o text
      [] task = "Elaborate" ->
            <<"Explain the concepts simply for a beginner", ":\n\n">> \o text
      [] task = "Action Items" ->
            <<ActionItemsInstruction, ":\n\n">> \o text
      [] task = "Quiz" ->
            <<"Generate 3 quiz questions with answers at the bottom", ":\n\n">>
                \o text
      [] task = "Mind Map" ->
            <<"\n Create a Mermaid.js flowchart code to visualize connections.",
              "\n - Start with 'graph TD'.",
              "\n - Use short node labels.",
              "\n - Do NOT use markdown code blocks. Return raw code only.",
              "\n Text: ">> \o text \o <<"\n ">>
      [] OTHER -> <<"Analyze this text.">>

\* the post-processing of the reply in think_and_process
StripOnlyMermaidFence(reply) == Strip(Replace(reply, MermaidFence))
PostProcess(reply) == Strip(Replace(Replace(reply, MermaidFence), Fence))

\* the prompt of ask_question
AskPrompt(transcript, question) ==
    <<"Context: ">> \o transcript \o <<"\n\nQuestion: ">> \o question
        \o <<"\n\nAnswer concisely based on context:">>

\* the except branch of listen_and_transcribe
AgentErrorPrefix == "Agent Error: "
ErrorMessages == {<<"quota exceeded">>}
AgentError(msg) == <<AgentErrorPrefix>> \o msg

\* what the gateway gives back to one request: a reply, or an exception
Reply(t) == [ok |-> TRUE, text |-> t]
Failure(m) == [ok |-> FALSE, text |-> m]

\* listen_and_transcribe: upload_file, then generate_content, inside try/except
ListenAndTranscribe(upload, generate) ==
    IF ~upload.ok
    THEN [value |-> AgentError(upload.text), requests |-> 1,
          failed |-> TRUE, raised |-> FALSE]
    ELSE IF ~generate.ok
    THEN [value |-> AgentError(generate.text), requests |-> 2,
          failed |-> TRUE, raised |-> FALSE]
    ELSE [value |-> generate.text, requests |-> 2,
          failed |-> FALSE, raised |-> FALSE]

\* think_and_process: no try/except around generate_content
ThinkAndProcess(text, task, generate) ==
    IF generate.ok
    THEN [value |-> PostProcess(generate.text), requests |-> 1,
          failed |-> FALSE, raised |-> FALSE, prompt |-> ThinkPrompt(task, text)]
    ELSE [value |-> <<>>, requests |-> 1,
          failed |-> TRUE, raised |-> TRUE, prompt |-> ThinkPrompt(task, text)]

\* ask_question: no try/except around generate_content
AskQuestion(transcript, question, generate) ==
    IF generate.ok
    THEN [value |-> generate.text, requests |-> 1,
          failed |-> FALSE, raised |-> FALSE,
          prompt |-> AskPrompt(transcript, question)]
    ELSE [value |-> <<>>, requests |-> 1,
          failed |-> TRUE, raised |-> TRUE,
          prompt |-> AskPrompt(transcript, question)]

---------------------------------------------------------------------------
(* File generators *)

\* a character latin-1 cannot encode
NonLatin1 == {"EURO"}

\* clean(t): t.encode('latin-1', 'replace').decode('latin-1')
Clean(t) == [i \in 1..Len(t) |-> IF t[i] \in NonLatin1 THEN "?" ELSE t[i]]

\* create_pdf: the cells written, in order
CreatePdf(title, transcript, notes) ==
    <<Clean(title), <<"AI Notes:">>, Clean(notes),
      <<"Transcript:">>, Clean(transcript)>>

\* create_docx: the headings and paragraphs added, in order
CreateDocx(transcript, notes) ==
    <<<<"VerbaFlow Report">>, <<"AI Notes">>, notes,
      <<"Transcript">>, transcript>>

\* NamedTemporaryFile(delete=False, suffix=".docx") in create_docx: the
\* files one call leaves on disk
DocxFilesLeft == 1

\* NamedTemporaryFile(delete=False, suffix=".wav") in main: the files one
\* run with a recording leaves on disk
WavFilesLeft == 1

---------------------------------------------------------------------------
(* Inputs of the session *)

ApiKeys == {"", "key"}
Clips == 1..NumClips
TaskButtons == {"Summarize", "Elaborate", "Action Items", "Mind Map"}
DownloadButtons == {"Download DOCX", "Download PDF"}
Questions == {<<"q">>}
TranscriptReplies == {<<>>, <<"a">>, <<"EURO">>}
AnalysisReplies == {<<"n">>, MermaidFence \o <<"g">> \o Fence}
AnswerReplies == {<<"r">>}

GatewayResponses(replies) ==
    {Reply(t) : t \in replies} \cup {Failure(m) : m \in ErrorMessages}

---------------------------------------------------------------------------
(* st.session_state *)

EmptySession == [k \in {} |-> <<>>]
Has(k) == k \in DOMAIN session
Put(s, k, v) == [x \in (DOMAIN s) \cup {k} |-> IF x = k THEN v ELSE s[x]]

---------------------------------------------------------------------------
(* User actions: each one changes a widget and starts a run of the script *)

\* what the last run rendered, so what the user can touch
AudioInputShown == apiKey # ""
TranscribeShown == AudioInputShown /\ audio # 0
TaskButtonsShown == apiKey # "" /\ Has("transcript")
\* line 171 raising skips the result panel and the chat box
PastAnalysis == status \in {"ok", "raised in ask_question"}
DownloadShown == TaskButtonsShown /\ Has("result") /\ PastAnalysis
QuestionShown == TaskButtonsShown /\ PastAnalysis

StartRun(button) ==
    /\ pc = "idle"
    /\ nActions < MaxActions
    /\ nActions' = nActions + 1
    /\ clicked' = button
    /\ pc' = "start"
    /\ status' = "running"
    /\ runRequests' = 0
    /\ actionOps' = 0
    /\ gw' = "none"
    /\ downloads' = <<>>
    /\ answer' = <<>>
    /\ UNCHANGED <<session, wavFiles, docxFiles, resultFrom, fnVars>>

SetApiKey(k) ==
    /\ k # apiKey
    /\ apiKey' = k
    /\ StartRun("none")
    /\ UNCHANGED <<audio, userQ>>

Record(c) ==
    /\ AudioInputShown
    /\ c # audio
    /\ audio' = c
    /\ StartRun("none")
    /\ UNCHANGED <<apiKey, userQ>>

ClickTranscribe ==
    /\ TranscribeShown
    /\ StartRun("transcribe")
    /\ UNCHANGED <<apiKey, audio, userQ>>

ClickTask(t) ==
    /\ TaskButtonsShown
    /\ StartRun(t)
    /\ UNCHANGED <<apiKey, audio, userQ>>

ClickDownload(b) ==
    /\ DownloadShown
    /\ StartRun(b)
    /\ UNCHANGED <<apiKey, audio, userQ>>

SubmitQuestion(q) ==
    /\ QuestionShown
    /\ q # userQ
    /\ userQ' = q
    /\ StartRun("none")
    /\ UNCHANGED <<apiKey, audio>>

---------------------------------------------------------------------------
(* The script run: main() *)

\* `not api_key`
MissingKeyNever(k) == FALSE
MissingKey(k) == k = ""

Finish(how) ==
    /\ pc' = "idle"
    /\ status' = how

\* lines 135-139: the credential check. Returning here ends the run before
\* the recorder and the question box are rendered, and Streamlit drops the
\* state of widgets a completed run did not render.
CheckKey ==
    /\ pc = "start"
    /\ IF MissingKey(apiKey)
       THEN /\ Finish("warning")
            /\ audio' = 0
            /\ userQ' = <<>>
       ELSE /\ pc' = "audio"
            /\ UNCHANGED <<status, audio, userQ>>
    /\ UNCHANGED <<apiKey, clicked, session, wavFiles, docxFiles, downloads,
                   answer, runRequests, actionOps, gw, resultFrom, nActions,
                   fnVars>>

\* lines 145-150: a recording is copied to a temporary file on every run
AudioSection ==
    /\ pc = "audio"
    /\ IF audio # 0
       THEN /\ wavFiles' = wavFiles + WavFilesLeft
            /\ pc' = IF clicked = "transcribe" THEN "transcribe" ELSE "section2"
       ELSE /\ pc' = "section2"
            /\ UNCHANGED wavFiles
    /\ UNCHANGED <<apiKey, audio, userQ, clicked, session, docxFiles, status,
                   downloads, answer, runRequests, actionOps, gw, resultFrom,
                   nActions, fnVars>>

\* lines 151-153: transcribe and store whatever came back
Transcribe ==
    /\ pc = "transcribe"
    /\ \E upload \in GatewayResponses({<<"file">>}),
          generate \in GatewayResponses(TranscriptReplies) :
          LET r == ListenAndTranscribe(upload, generate) IN
          /\ session' = Put(session, "transcript", r.value)
          /\ gw' = IF r.failed THEN "failed" ELSE "ok"
          /\ runRequests' = runRequests + r.requests
    /\ actionOps' = actionOps + 1
    /\ pc' = "rerun"
    /\ UNCHANGED <<apiKey, audio, userQ, clicked, wavFiles, docxFiles, status,
                   downloads, answer, resultFrom, nActions, fnVars>>

\* line 154, st.rerun(): this run stops and the script starts over, with
\* the widgets as they are and no button pressed
Rerun ==
    /\ pc = "rerun"
    /\ pc' = "start"
    /\ clicked' = "none"
    /\ runRequests' = 0
    /\ UNCHANGED <<apiKey, audio, userQ, session, wavFiles, docxFiles, status,
                   downloads, answer, actionOps, gw, resultFrom, nActions,
                   fnVars>>

\* lines 157-169: the transcript panel and the task buttons
KnowledgeEngine ==
    /\ pc = "section2"
    /\ IF ~Has("transcript")
       THEN Finish("ok")
       ELSE /\ pc' = IF clicked \in TaskButtons THEN "think" ELSE "result"
            /\ UNCHANGED status
    /\ UNCHANGED <<apiKey, audio, userQ, clicked, session, wavFiles,
                   docxFiles, downloads, answer, runRequests, actionOps, gw,
                   resultFrom, nActions, fnVars>>

\* lines 170-173
Think ==
    /\ pc = "think"
    /\ \E generate \in GatewayResponses(AnalysisReplies) :
          LET r == ThinkAndProcess(session["transcript"], clicked, generate) IN
          /\ runRequests' = runRequests + r.requests
          /\ IF r.raised
             THEN /\ Finish("raised in think_and_process")
                  /\ gw' = "failed"
                  /\ UNCHANGED <<session, resultFrom>>
             ELSE /\ session' = Put(Put(session, "result", r.value),
                                    "task", clicked)
                  /\ resultFrom' = session["transcript"]
                  /\ gw' = "ok"
                  /\ pc' = "result"
                  /\ UNCHANGED status
    /\ actionOps' = actionOps + 1
    /\ UNCHANGED <<apiKey, audio, userQ, clicked, wavFiles, docxFiles,
                   downloads, answer, nActions, fnVars>>

\* lines 175-190: the result panel and the two download buttons
ResultPanel ==
    /\ pc = "result"
    /\ IF Has("result")
       THEN /\ downloads' =
                <<CreateDocx(session["transcript"], session["result"]),
                  CreatePdf(<<"VerbaFlow">>, session["transcript"],
                            session["result"])>>
            /\ docxFiles' = docxFiles + DocxFilesLeft
       ELSE UNCHANGED <<downloads, docxFiles>>
    /\ pc' = "chat"
    /\ UNCHANGED <<apiKey, audio, userQ, clicked, session, wavFiles, status,
                   answer, runRequests, actionOps, gw, resultFrom, nActions,
                   fnVars>>

\* lines 195-196
ChatBox ==
    /\ pc = "chat"
    /\ IF userQ # <<>>
       THEN /\ pc' = "ask"
            /\ UNCHANGED status
       ELSE Finish("ok")
    /\ UNCHANGED <<apiKey, audio, userQ, clicked, session, wavFiles,
                   docxFiles, downloads, answer, runRequests, actionOps, gw,
                   resultFrom, nActions, fnVars>>

\* lines 197-199
Ask ==
    /\ pc = "ask"
    /\ \E generate \in GatewayResponses(AnswerReplies) :
          LET r == AskQuestion(session["transcript"], userQ, generate) IN
          /\ runRequests' = runRequests + r.requests
          /\ IF r.raised
             THEN /\ Finish("raised in ask_question")
                  /\ gw' = "failed"
                  /\ UNCHANGED answer
             ELSE /\ Finish("ok")
                  /\ gw' = "ok"
                  /\ answer' = r.value
    /\ actionOps' = actionOps + 1
    /\ UNCHANGED <<apiKey, audio, userQ, clicked, session, wavFiles,
                   docxFiles, downloads, resultFrom, nActions, fnVars>>

---------------------------------------------------------------------------
(* The session specification *)

FnIdle ==
    /\ fnPc = "unused"
    /\ fnTask = "none"
    /\ fnText = <<>>
    /\ fnQuestion = <<>>
    /\ fnReply = <<>>
    /\ fnPrompt = <<>>
    /\ fnOut = <<>>

\* the page is loaded: nothing entered, the script about to run once
SessionInit ==
    /\ apiKey = ""
    /\ audio = 0
    /\ userQ = <<>>
    /\ clicked = "none"
    /\ session = EmptySession
    /\ wavFiles = 0
    /\ docxFiles = 0
    /\ pc = "start"
    /\ status = "running"
    /\ downloads = <<>>
    /\ answer = <<>>
    /\ runRequests = 0
    /\ actionOps = 0
    /\ gw = "none"
    /\ resultFrom = <<>>
    /\ nActions = 0

Init == SessionInit /\ FnIdle

Next ==
    \/ \E k \in ApiKeys : SetApiKey(k)
    \/ \E c \in Clips : Record(c)
    \/ ClickTranscribe
    \/ \E t \in TaskButtons : ClickTask(t)
    \/ \E b \in DownloadButtons : ClickDownload(b)
    \/ \E q \in Questions \cup {<<>>} : SubmitQuestion(q)
    \/ CheckKey
    \/ AudioSection
    \/ Transcribe
    \/ Rerun
    \/ KnowledgeEngine
    \/ Think
    \/ ResultPanel
    \/ ChatBox
    \/ Ask

Spec == Init /\ [][Next]_vars

---------------------------------------------------------------------------
(* The function-level specifications *)

SessionIdle == UNCHANGED sessionVars

\* think_and_process(fnText, fnTask), the gateway replying fnReply
FnThink ==
    /\ fnPc = "ready"
    /\ LET r == ThinkAndProcess(fnText, fnTask, Reply(fnReply)) IN
          /\ fnPrompt' = r.prompt
          /\ fnOut' = r.value
    /\ fnPc' = "think_and_process"
    /\ UNCHANGED <<fnTask, fnText, fnQuestion, fnReply>>
    /\ SessionIdle

\* ask_question(fnText, fnQuestion), the gateway replying fnReply
FnAsk ==
    /\ fnPc = "ready"
    /\ LET r == AskQuestion(fnText, fnQuestion, Reply(fnReply)) IN
          /\ fnPrompt' = r.prompt
          /\ fnOut' = r.value
    /\ fnPc' = "ask_question"
    /\ UNCHANGED <<fnTask, fnText, fnQuestion, fnReply>>
    /\ SessionIdle

PromptTexts == SeqsUpTo({"a", "b"}, MaxTextLen)
TaskInputs == Tasks \cup {"Translate"}

PromptInit ==
    /\ SessionInit
    /\ fnPc = "ready"
    /\ fnTask \in TaskInputs
    /\ fnText \in PromptTexts
    /\ fnQuestion \in PromptTexts
    /\ fnReply = <<"n">>
    /\ fnPrompt = <<>>
    /\ fnOut = <<>>

PromptNext == FnThink \/ FnAsk

PromptSpec == PromptInit /\ [][PromptNext]_vars

\* replies put together from backticks, whole fences, the word "mermaid",
\* another character, a blank and a line break
FencePieces == {<<Tick>>, Fence, MermaidWord, <<"x">>, <<" ">>, <<"\n">>}
FenceReplies == {Flatten(ps) : ps \in SeqsUpTo(FencePieces, MaxPieces)}

FenceInit ==
    /\ SessionInit
    /\ fnPc = "ready"
    /\ fnTask = "Mind Map"
    /\ fnText = <<"a">>
    /\ fnQuestion = <<>>
    /\ fnReply \in FenceReplies
    /\ fnPrompt = <<>>
    /\ fnOut = <<>>

FenceNext == FnThink

FenceSpec == FenceInit /\ [][FenceNext]_vars

---------------------------------------------------------------------------
(* Claims *)

\* the transcript held by a session store, as a set: empty when absent
TranscriptOf(s) ==
    IF "transcript" \in DOMAIN s THEN {s["transcript"]} ELSE {}

\* the run is about to analyse, answer a question or export
AboutToUseTranscript ==
    \/ pc \in {"think", "ask"}
    \/ pc = "result" /\ Has("result")

\* C1: an analysis (think_and_process), a follow-up question (ask_question)
\* or an export (create_docx / create_pdf) is performed only when the
\* session holds a non-empty transcript.
C1_ActionNeedsNonEmptyTranscript ==
    AboutToUseTranscript =>
        Has("transcript") /\ session["transcript"] # <<>>

\* C2: once a run of the script has ended, no temporary audio file it or an
\* earlier run created remains on disk.
C2_TempAudioDeleted ==
    pc = "idle" => wavFiles = 0

\* C3: with an empty API key a run issues no gateway request and performs no
\* gateway operation, never gets past the credential check, and ends with
\* the missing-credential warning.
C3_NoGatewayCallWithoutKey ==
    apiKey = "" =>
        /\ runRequests = 0
        /\ actionOps = 0
        /\ pc \in {"start", "idle"}
        /\ pc = "idle" => status = "warning"

\* C3 witness: the key was cleared while the session held a transcript and
\* a result, and the run has ended with the warning.
C3_Witness ==
    /\ apiKey = ""
    /\ pc = "idle"
    /\ status = "warning"
    /\ Has("transcript")
    /\ Has("result")
    /\ nActions > 1

\* C4: no single user action leads to two gateway operations.
C4_OneGatewayCallPerAction ==
    actionOps <= 1

\* C5: a gateway failure never ends the run of main() with an exception.
C5_FailureNeverRaises ==
    gw = "failed" =>
        status \notin {"raised in think_and_process", "raised in ask_question"}

\* C6: a transcribe step whose gateway call fails leaves the transcript of
\* the session as it was.
C6_FailedTranscribeKeepsTranscript ==
    [][(pc = "transcribe" /\ gw' = "failed")
          => TranscriptOf(session') = TranscriptOf(session)]_vars

\* C7: whatever the reply, the value think_and_process returns for the Mind
\* Map task holds no three consecutive backticks.
C7_NoFenceInMindMap ==
    fnPc = "think_and_process" => ~Contains(fnOut, Fence)

\* C7 witness: a reply with four backticks in a row before "mermaid" and two
\* after it, where removing the mermaid fence leaves a new fence behind.
C7_Witness ==
    /\ fnPc = "think_and_process"
    /\ fnReply = <<Tick>> \o MermaidFence \o <<Tick, Tick>>
    /\ Contains(Replace(fnReply, MermaidFence), Fence)
    /\ fnOut = <<>>

\* element e stands in hay before an occurrence of needle
Precedes(hay, e, needle) ==
    \E i \in 1..Len(hay) :
        /\ hay[i] = e
        /\ \E j \in i..(Len(hay) - Len(needle)) :
              SubSeq(hay, j + 1, j + Len(needle)) = needle

\* C8: for a non-empty transcript and a supported task (or ask_question)
\* the prompt holds the transcript verbatim, and for Action Items the
\* checklist instruction stands before it.
C8_PromptHoldsTranscript ==
    (fnPc \in {"think_and_process", "ask_question"} /\ fnText # <<>>) =>
        /\ (fnPc = "ask_question" \/ fnTask \in Tasks)
              => Contains(fnPrompt, fnText)
        /\ (fnPc = "think_and_process" /\ fnTask = "Action Items")
              => Precedes(fnPrompt, ActionItemsInstruction, fnText)

\* C8 witness: the Action Items prompt was built for a two-character
\* transcript.
C8_Witness ==
    /\ fnPc = "think_and_process"
    /\ fnTask = "Action Items"
    /\ fnText = <<"a", "b">>
    /\ fnPrompt = <<ActionItemsInstruction, ":\n\n", "a", "b">>

\* C9: rendering the download buttons (create_docx, create_pdf) leaves the
\* session store and the files on disk as they were.
C9_ExportLeavesStateAlone ==
    [][(pc = "result" /\ Has("result"))
          => /\ session' = session
             /\ docxFiles' = docxFiles
             /\ wavFiles' = wavFiles]_vars

\* C10: a stored result was produced from the transcript the session holds.
C10_ResultFromCurrentTranscript ==
    Has("result") => resultFrom = session["transcript"]

===========================================================================
